---- MODULE Spec2Model ----
(***************************************************************************)
(* Session registry, presenter arbitration, control-plane commands and     *)
(* capture lifecycle of ScreenShareServer (src/unified_server.py).         *)
(*                                                                         *)
(* The server is one asyncio event loop.  Every connection is served by    *)
(* one coroutine (websocket_handler); a coroutine runs without             *)
(* interruption until it suspends in an await.  An action of this module   *)
(* is one such uninterrupted run: from the event that wakes the coroutine  *)
(* up to its next suspension (or its end).  The awaits that can suspend    *)
(* are websocket.send_str (when the transport exerts back-pressure),       *)
(* capture_task (in stop_capture, until the cancelled task has finished)   *)
(* and websocket.close (in cleanup).                                       *)
(*                                                                         *)
(* User ids are uuid4 values in the code, fresh for every connection; the  *)
(* model numbers the connections in the order in which they register, so   *)
(* that an id is also the index of the user's entry in the insertion       *)
(* ordered dict `users`.                                                   *)
(***************************************************************************)
EXTENDS Integers, Sequences, FiniteSets, TLC

\* Number of connections ever made to the server.
MaxUsers == 3
\* Number of handlers that may be suspended in the middle of an operation
\* at the same time because of an optional suspension (send_str).
MaxSuspended == 1
\* Largest reading of time.time() (the clock starts at 0).
MaxClock == 1

\* presenter_id = None
NoUser == 0
Ids == 1..MaxUsers

\* ScreenCapture.__init__ defaults
DefaultFps == 60
DefaultWidth == 1280
DefaultHeight == 720
DefaultQuality == 85

VARIABLES
    users,              \* ScreenShareServer.users: the keys, in insertion order
    presenter_id,       \* ScreenShareServer.presenter_id
    is_presenter,       \* User.is_presenter of every User object ever made
    connected_at,       \* User.connected_at
    now,                \* time.time()
    running,            \* ScreenCapture.running
    capture_task,       \* state of the task held by ScreenCapture.capture_task
    target_fps,         \* ScreenCapture.target_fps
    target_resolution,  \* ScreenCapture.target_resolution
    quality,            \* ScreenCapture.quality
    selected_monitor,   \* ScreenCapture.selected_monitor
    pc,                 \* where each connection's websocket_handler is
    todo,               \* _broadcast: the part of list(self.users.keys()) not yet sent to
    btype,              \* _broadcast: the type of the message being broadcast
    iter,               \* _broadcast_except: the iterator over self.users.items()
    server,             \* where main() is: serving, in cleanup, or stopped
    sent,               \* the send_str calls made by the last step, in order
    failing,            \* the users whose websocket has failed: send_str raises
    msg,                \* the text frame read by the last step, if it read one
    chatMessages,       \* the chat lines shown by each user's page (#chatMessages)
    impl,               \* the class of the capture object
    threads,            \* where each capture thread ever created is
    capture_thread,     \* the thread held by the attribute capture_thread
    joining,            \* the thread stop_capture is joining
    current_frame,      \* current_frame: the number of the frame it holds
    frame_queue,        \* screen_capture.ScreenCapture.frame_queue
    lp,                 \* where _capture_loop is, followed statement by statement
    frame,              \* _capture_loop: the frame of the tick (its number)
    built,              \* _capture_loop: the frame of the tick is completely produced
    grabbed,            \* frames produced so far (the numbers given out)
    tick_start,         \* _capture_loop: start_time / frame_start of the tick
    frame_interval,     \* frame_interval: local of the loop, or attribute
    next_frame_time,    \* screen_capture._capture_loop: next_frame_time
    frame_count,        \* frame_count
    last_fps_time,      \* last_fps_time
    actual_fps,         \* actual_fps: <<dividend, divisor>>
    window_ticks,       \* ticks completed since actual_fps was last computed
    read,               \* the frame the last get_current_frame returned
    mss_available,      \* MSS_AVAILABLE: `import mss` succeeded
    connections,        \* WebRTCServer.connections: the peer connections it holds
    peer,               \* each RTCPeerConnection: not created, open or closed
    offer,              \* handle_offer for each peer connection: where it is
    websockets,         \* WebRTCServer.websockets
    sock,               \* each signalling websocket and its handler
    rtc,                \* where WebRTCServer.cleanup is
    closing,            \* cleanup: what is left of the copy it iterates over
    app,                \* where ScreenShareApp.start is
    app_running,        \* ScreenShareApp.running
    cleanups,           \* the calls of ScreenShareApp.cleanup so far
    stop_called         \* ScreenShareApp.stop has been called

regVars == <<users, presenter_id, is_presenter, connected_at, now>>
capVars == <<running, capture_task>>
setVars == <<target_fps, target_resolution, quality, selected_monitor>>
bcVars  == <<todo, btype, iter>>
thrVars == <<impl, threads, capture_thread, joining, current_frame, frame_queue>>
loopVars == <<lp, frame, built, grabbed, tick_start, frame_interval,
              next_frame_time, frame_count, last_fps_time, actual_fps,
              window_ticks, read>>
\* the host, and the programs beside the unified server
rtcVars == <<connections, peer, offer, websockets, sock, rtc, closing>>
appVars == <<app, app_running, cleanups, stop_called>>
sideVars == <<mss_available, rtcVars, appVars>>
envVars == <<failing, chatMessages, thrVars, loopVars, sideVars>>
vars == <<users, presenter_id, is_presenter, connected_at, now, running,
          capture_task, target_fps, target_resolution, quality,
          selected_monitor, pc, todo, btype, iter, server, sent, failing,
          msg, chatMessages, impl, threads, capture_thread, joining,
          current_frame, frame_queue, lp, frame, built, grabbed, tick_start,
          frame_interval, next_frame_time, frame_count, last_fps_time,
          actual_fps, window_ticks, read, mss_available, connections, peer,
          offer, websockets, sock, rtc, closing, app, app_running, cleanups,
          stop_called>>

----------------------------------------------------------------------------
(* Helpers *)

Range(U) == {U[i] : i \in 1..Len(U)}
InUsers(u) == u \in Range(users)
Without(U, u) == SelectSeq(U, LAMBDA x : x # u)
Min(S) == CHOOSE x \in S : \A y \in S : x <= y

\* A message is its 'type', the 'message' text of a chat_message (a sequence
\* of characters) and the 'new_presenter' of a presenter_changed or
\* user_left; a send_str call is a message and its addressee.
Event(type) == [type |-> type, text |-> <<>>, new_presenter |-> NoUser]
Msg(to, type) == [to |-> to, type |-> type, text |-> <<>>, new_presenter |-> NoUser]
SendTo(to, m) ==
    [to |-> to, type |-> m.type, text |-> m.text, new_presenter |-> m.new_presenter]
\* Welcome built before the registration and the grant of the role
Welcome_early(u, flag, U) ==
    [to |-> u, type |-> "welcome", text |-> <<>>, new_presenter |-> NoUser,
     user_id |-> u, is_presenter |-> FALSE, users |-> Without(U, u)]

\* the welcome message: 'user_id', 'is_presenter' and 'users' as well
Welcome(u, flag, U) ==
    [to |-> u, type |-> "welcome", text |-> <<>>, new_presenter |-> NoUser,
     user_id |-> u, is_presenter |-> flag, users |-> U]
Msgs(U, type) == [i \in 1..Len(U) |-> Msg(U[i], type)]
SendAll(U, m) == [i \in 1..Len(U) |-> SendTo(U[i], m)]
\* no text frame
NoMsg == [from |-> 0, kind |-> "none", text |-> <<>>]

NoIter == [used |-> 0, pos |-> 0, len |-> 0]
\* iter(d.items()) of a dict with the keys U
NewIter(U) == [used |-> Len(U), pos |-> 0, len |-> Len(U)]

\* The program counters at which a handler is suspended inside an operation.
MidOperation == {"welcome", "announce", "bcast", "left", "stop_wait", "disc_wait"}
Suspended == {u \in Ids : pc[u] \in MidOperation}
\* send_str may suspend the caller; the model lets it while fewer than
\* MaxSuspended handlers are suspended (a handler that is suspended already
\* may suspend again).
MaySuspend(u) == pc[u] \in MidOperation \/ Cardinality(Suspended) < MaxSuspended

----------------------------------------------------------------------------
(* Initial state: ScreenShareServer.__init__ and ScreenCapture.__init__ *)

\* time.time() counts sixtieths of a second: `1.0` is Second
Second == 60
\* 1.0 / fps
Interval(fps) == Second \div fps
\* self.start_time = time.time() in __init__
StartTime == 0

\* Capture threads ever created
MaxThreads == 2
\* Peer connections offered and signalling websockets opened in one run
MaxPeers == 2
MaxSockets == 2
PeerIds == 1..MaxPeers
SocketIds == 1..MaxSockets
\* Frames ever written
MaxFrames == 3
ThreadIds == 1..MaxThreads

\* The capture object is of one of the classes I: "async" is
\* unified_server.ScreenCapture (an asyncio task), "queue" is
\* screen_capture.ScreenCapture and "simple" is
\* simple_server.ScreenCaptureSimple (both a thread).
InitWith(I, M) ==
    /\ users = <<>>
    /\ presenter_id = NoUser
    /\ is_presenter = [u \in Ids |-> FALSE]
    /\ connected_at = [u \in Ids |-> 0]
    /\ now = 0
    /\ running = FALSE
    /\ capture_task = "none"
    /\ target_fps = DefaultFps
    /\ target_resolution = <<DefaultWidth, DefaultHeight>>
    /\ quality = DefaultQuality
    /\ selected_monitor = 0
    /\ pc = [u \in Ids |-> "idle"]
    /\ todo = [u \in Ids |-> <<>>]
    /\ btype = [u \in Ids |-> Event("none")]
    /\ iter = [u \in Ids |-> NoIter]
    /\ server = "serving"
    /\ sent = <<>>
    /\ failing = {}
    /\ msg = NoMsg
    /\ chatMessages = [u \in Ids |-> <<>>]
    /\ impl \in I
    /\ threads = [k \in ThreadIds |-> "unborn"]
    /\ capture_thread = 0
    /\ joining = 0
    /\ current_frame = 0
    /\ frame_queue = <<>>
    /\ lp = "off"
    /\ frame = 0
    /\ built = FALSE
    /\ grabbed = 0
    /\ tick_start = 0
    /\ frame_interval = IF impl = "queue" THEN Interval(DefaultFps) ELSE 0
    /\ next_frame_time = 0
    /\ frame_count = 0
    /\ last_fps_time = StartTime
    /\ actual_fps = <<0, 1>>
    /\ window_ticks = 0
    /\ read = 0
    /\ mss_available \in M
    /\ connections = {}
    /\ peer = [p \in PeerIds |-> "unborn"]
    /\ offer = [p \in PeerIds |-> "none"]
    /\ websockets = {}
    /\ sock = [w \in SocketIds |-> "unborn"]
    /\ rtc = "serving"
    /\ closing = {}
    /\ app = "new"
    /\ app_running = FALSE
    /\ cleanups = 0
    /\ stop_called = FALSE

\* The capture classes I on a host where mss is installed
InitOf(I) == InitWith(I, {TRUE})

Init == InitOf({"async"})

----------------------------------------------------------------------------
(* ScreenCapture: start_capture, stop_capture, the death of the capture task *)

\* start_capture: a no-op while running, else a new task
start_capture_running == TRUE
start_capture_task == IF running THEN capture_task ELSE "pending"

\* stop_capture: running = False, the task (if any) is cancelled and awaited.
\* A cancelled task never runs another tick: "cancelled" from the cancel on.
stop_capture_task == IF capture_task = "pending" THEN "cancelled" ELSE capture_task
\* `await self.capture_task` raises what the task died of
StopRaises == capture_task = "failed"
\* it suspends the caller until a task that is not done yet has finished: the
\* task just cancelled, or one cancelled by a caller that is still waiting
StopWaiters == {u \in Ids : pc[u] \in {"stop_wait", "disc_wait"}}
StopWaits ==
    \/ capture_task = "pending"
    \/ capture_task = "cancelled" /\ (StopWaiters # {} \/ server = "cleanup_stop")
\* and returns at once when there is no task or the task is done
StopReturns == capture_task \in {"none", "cancelled"}

\* _capture_loop: the capture fails and _generate_test_frame, called from
\* the except clause, raises too: the task ends with that exception while
\* `running` stays True.
capture_loop_dies ==
    /\ capture_task = "pending"
    /\ capture_task' = "failed"
    /\ sent' = <<>>
    /\ UNCHANGED <<regVars, running, setVars, pc, bcVars, server>>
    /\ msg' = NoMsg
    /\ UNCHANGED envVars

----------------------------------------------------------------------------
(* _broadcast and _broadcast_except *)

\* The users whose send_str raises: the websocket has failed, or the handler
\* has ended and aiohttp has closed it
Failing == failing \cup {v \in Ids : pc[v] \in {"done", "crashed"}}

\* The page of v: handleMessage calls addChatMessage for every chat_message
\* that reaches it; a send_str that raises delivers nothing.
ChatLines(S, v) ==
    LET mine == SelectSeq(S, LAMBDA x : x.to = v /\ x.type = "chat_message")
    IN  [i \in 1..Len(mine) |-> mine[i].text]
addChatMessage ==
    chatMessages' = [v \in Ids |->
        IF v \in Failing THEN chatMessages[v]
        ELSE chatMessages[v] \o ChatLines(sent', v)]

\* _broadcast(message) called by the handler of u with the keys U in `users`;
\* `pre` are the sends the step has made before, `after` is where the
\* handler goes when the broadcast is over.  Either no send suspends, or the
\* first one does.
broadcast_message(u, m, after, U, pre) ==
    \/ /\ sent' = pre \o SendAll(U, m)
       /\ pc' = [pc EXCEPT ![u] = after]
       /\ todo' = [todo EXCEPT ![u] = <<>>]
       /\ btype' = [btype EXCEPT ![u] = Event("none")]
    \/ /\ Len(U) > 1
       /\ MaySuspend(u)
       /\ sent' = pre \o <<SendTo(Head(U), m)>>
       /\ pc' = [pc EXCEPT ![u] = IF after = "done" THEN "left" ELSE "bcast"]
       /\ todo' = [todo EXCEPT ![u] = Tail(U)]
       /\ btype' = [btype EXCEPT ![u] = m]

\* _broadcast of a message that is its type alone
broadcast(u, type, after, U, pre) == broadcast_message(u, Event(type), after, U, pre)

\* The handler of u wakes up in _broadcast.  self.users[user_id] raises
\* KeyError for a key that has left since the snapshot; it is caught and the
\* loop goes on.
broadcast_resume(u) ==
    /\ pc[u] \in {"bcast", "left"}
    /\ broadcast_message(u, btype[u], IF pc[u] = "left" THEN "done" ELSE "reading",
                         SelectSeq(todo[u], InUsers), <<>>)
    /\ msg' = NoMsg
    /\ addChatMessage
    /\ UNCHANGED <<regVars, capVars, setVars, iter, server, failing, thrVars, loopVars, sideVars>>

\* dictiter_iternextitem of CPython on the keys U: the next key after entry
\* `pos`, or NoUser when the entries are exhausted
IterNextKey(U, pos) ==
    LET later == {x \in Range(U) : x > pos}
    IN  IF later = {} THEN NoUser ELSE Min(later)

\* The iteration of _broadcast_except run to its end with the dict not
\* changing any more: the users sent to, and whether it ends with
\* RuntimeError (an entry found after `len` entries have been returned)
RECURSIVE RunIter(_, _, _, _)
RunIter(U, ex, pos, len) ==
    LET nx == IterNextKey(U, pos)
    IN  IF nx = NoUser THEN [to |-> <<>>, crash |-> FALSE]
        ELSE IF len = 0 THEN [to |-> <<>>, crash |-> TRUE]
        ELSE LET r == RunIter(U, ex, nx, len - 1)
             IN  [to |-> IF nx = ex THEN r.to ELSE <<nx>> \o r.to,
                  crash |-> r.crash]

\* The iteration up to its next send
RECURSIVE StepIter(_, _, _, _)
StepIter(U, ex, pos, len) ==
    LET nx == IterNextKey(U, pos)
    IN  IF nx = NoUser THEN [kind |-> "end", to |-> NoUser, pos |-> pos, len |-> len]
        ELSE IF len = 0 THEN [kind |-> "crash", to |-> NoUser, pos |-> pos, len |-> len]
        ELSE IF nx = ex THEN StepIter(U, ex, nx, len - 1)
        ELSE [kind |-> "send", to |-> nx, pos |-> nx, len |-> len - 1]

\* "dictionary changed size during iteration": checked by every next()
SizeChanged(U, it) == Len(U) # it.used

\* _broadcast_except(u, user_joined) from the iterator state `it` on.  The
\* RuntimeError of the iterator is raised outside the try of
\* websocket_handler: the handler ends, _user_disconnected is not called.
broadcast_except(u, U, it, pre) ==
    IF SizeChanged(U, it)
    THEN /\ sent' = pre
         /\ pc' = [pc EXCEPT ![u] = "crashed"]
         /\ iter' = [iter EXCEPT ![u] = NoIter]
    ELSE \/ LET r == RunIter(U, u, it.pos, it.len)
            IN  /\ sent' = pre \o Msgs(r.to, "user_joined")
                /\ pc' = [pc EXCEPT ![u] = IF r.crash THEN "crashed" ELSE "reading"]
                /\ iter' = [iter EXCEPT ![u] = NoIter]
         \/ LET s == StepIter(U, u, it.pos, it.len)
            IN  /\ s.kind = "send"
                /\ MaySuspend(u)
                /\ sent' = pre \o <<Msg(s.to, "user_joined")>>
                /\ pc' = [pc EXCEPT ![u] = "announce"]
                /\ iter' = [iter EXCEPT ![u] =
                              [used |-> it.used, pos |-> s.pos, len |-> s.len]]

----------------------------------------------------------------------------
(* websocket_handler: registration, welcome, user_joined *)

\* GrantOnJoin with the test of presenter_id dropped
GrantOnJoin_always == TRUE

\* `if not self.presenter_id`
GrantOnJoin == presenter_id = NoUser

websocket_handler(u) ==
    /\ server # "stopped"
    /\ pc[u] = "idle"
    /\ \A v \in Ids : v < u => pc[v] # "idle"
    /\ \E dt \in {0, 1} :
          /\ now + dt <= MaxClock
          /\ now' = now + dt
    /\ users' = Append(users, u)
    /\ connected_at' = [connected_at EXCEPT ![u] = now']
    /\ is_presenter' = [is_presenter EXCEPT ![u] = GrantOnJoin]
    /\ presenter_id' = IF GrantOnJoin THEN u ELSE presenter_id
    /\ \/ /\ MaySuspend(u)
          /\ sent' = <<Welcome(u, is_presenter'[u], users')>>
          /\ pc' = [pc EXCEPT ![u] = "welcome"]
          /\ iter' = iter
       \/ broadcast_except(u, Append(users, u), NewIter(Append(users, u)),
                           <<Welcome(u, is_presenter'[u], users')>>)
    /\ UNCHANGED <<capVars, setVars, todo, btype, server>>
    /\ msg' = NoMsg
    /\ UNCHANGED envVars

\* the welcome has been sent
welcome_resume(u) ==
    /\ pc[u] = "welcome"
    /\ broadcast_except(u, users, NewIter(users), <<>>)
    /\ UNCHANGED <<regVars, capVars, setVars, todo, btype, server>>
    /\ msg' = NoMsg
    /\ UNCHANGED envVars

\* a user_joined has been sent
announce_resume(u) ==
    /\ pc[u] = "announce"
    /\ broadcast_except(u, users, iter[u], <<>>)
    /\ UNCHANGED <<regVars, capVars, setVars, todo, btype, server>>
    /\ msg' = NoMsg
    /\ UNCHANGED envVars

----------------------------------------------------------------------------
(* Control-plane commands: _handle_message and the handlers it calls *)

\* IsPresenter with the comparison dropped
IsPresenter_anyone(u) == TRUE

\* `self.presenter_id != user_id` / `user_id == self.presenter_id`
IsPresenter(u) == presenter_id = u

\* _start_presenting
start_presenting(u) ==
    /\ pc[u] = "reading"
    /\ IF ~InUsers(u)
       THEN /\ sent' = <<>>
            /\ UNCHANGED <<capVars, pc, todo, btype>>
       ELSE IF ~IsPresenter(u)
       THEN /\ sent' = <<Msg(u, "error")>>
            /\ UNCHANGED <<capVars, pc, todo, btype>>
       ELSE /\ running' = start_capture_running
            /\ capture_task' = start_capture_task
            /\ broadcast(u, "presentation_started", "reading", users, <<>>)
    /\ UNCHANGED <<regVars, setVars, iter, server>>
    /\ msg' = NoMsg
    /\ UNCHANGED envVars

\* _stop_presenting after stop_capture has returned.  The message is built
\* from self.users[user_id]: KeyError when u is no longer registered, which
\* websocket_handler catches; its finally clause then finds u gone.
stop_presenting_announce(u) ==
    IF InUsers(u)
    THEN broadcast(u, "presentation_stopped", "reading", users, <<>>)
    ELSE /\ sent' = <<>>
         /\ pc' = [pc EXCEPT ![u] = "done"]
         /\ UNCHANGED <<todo, btype>>

\* _stop_presenting.  When stop_capture raises, websocket_handler catches
\* the exception and calls _user_disconnected, whose own stop_capture
\* raises again, out of the handler.
stop_presenting(u) ==
    /\ pc[u] = "reading"
    /\ IF ~IsPresenter(u)
       THEN /\ sent' = <<>>
            /\ UNCHANGED <<users, capVars, pc, todo, btype>>
       ELSE /\ running' = FALSE
            /\ capture_task' = stop_capture_task
            /\ \/ /\ StopRaises
                  /\ users' = Without(users, u)
                  /\ sent' = <<>>
                  /\ pc' = [pc EXCEPT ![u] = IF InUsers(u) THEN "crashed" ELSE "done"]
                  /\ UNCHANGED <<todo, btype>>
               \/ /\ StopWaits
                  /\ sent' = <<>>
                  /\ pc' = [pc EXCEPT ![u] = "stop_wait"]
                  /\ UNCHANGED <<users, todo, btype>>
               \/ /\ StopReturns
                  /\ stop_presenting_announce(u)
                  /\ UNCHANGED users
    /\ UNCHANGED <<presenter_id, is_presenter, connected_at, now, setVars, iter, server>>
    /\ msg' = NoMsg
    /\ UNCHANGED envVars

\* the task awaited by stop_capture in _stop_presenting has finished
stop_presenting_resume(u) ==
    /\ pc[u] = "stop_wait"
    /\ stop_presenting_announce(u)
    /\ UNCHANGED <<regVars, capVars, setVars, iter, server>>
    /\ msg' = NoMsg
    /\ UNCHANGED envVars

\* RevokeOld with the old presenter's flag left set
RevokeOld_never == is_presenter

\* _request_presenter: the flag of the old presenter, if it is registered
RevokeOld ==
    IF presenter_id # NoUser /\ InUsers(presenter_id)
    THEN [is_presenter EXCEPT ![presenter_id] = FALSE]
    ELSE is_presenter

\* _request_presenter
request_presenter(u) ==
    /\ pc[u] = "reading"
    /\ IF ~InUsers(u)
       THEN /\ sent' = <<>>
            /\ UNCHANGED <<presenter_id, is_presenter, pc, todo, btype>>
       ELSE /\ presenter_id' = u
            /\ is_presenter' = [RevokeOld EXCEPT ![u] = TRUE]
            /\ broadcast_message(u, [Event("presenter_changed") EXCEPT !.new_presenter = u],
                                 "reading", users, <<>>)
    /\ UNCHANGED <<users, connected_at, now, capVars, setVars, iter, server>>
    /\ msg' = NoMsg
    /\ UNCHANGED envVars

----------------------------------------------------------------------------
(* _user_disconnected *)

\* NextPresenter taking the most recent key instead of the first
NextPresenter_last(U) == U[Len(U)]

\* `next(iter(self.users))`
NextPresenter(U) == Head(U)

\* new_presenter with no presenter named
new_presenter_none(pid) == NoUser

\* 'new_presenter' of user_left:
\* `self.users[self.presenter_id].to_dict() if self.presenter_id else None`
new_presenter(pid) == pid

\* the user_left broadcast, with U the remaining keys and pid the presenter:
\* self.users[self.presenter_id] raises KeyError when pid is not registered
user_left(u, U, pid) ==
    IF pid # NoUser /\ pid \notin Range(U)
    THEN /\ sent' = <<>>
         /\ pc' = [pc EXCEPT ![u] = "crashed"]
         /\ UNCHANGED <<todo, btype>>
    ELSE broadcast_message(u, [Event("user_left") EXCEPT !.new_presenter = new_presenter(pid)],
                           "done", U, <<>>)

\* the presenter has left and stop_capture has returned
reassign(u, U) ==
    /\ presenter_id' = IF U # <<>> THEN NextPresenter(U) ELSE NoUser
    /\ is_presenter' = IF U # <<>>
                       THEN [is_presenter EXCEPT ![NextPresenter(U)] = TRUE]
                       ELSE is_presenter
    /\ user_left(u, U, IF U # <<>> THEN NextPresenter(U) ELSE NoUser)

user_disconnected(u) ==
    IF ~InUsers(u)
    THEN /\ sent' = <<>>
         /\ pc' = [pc EXCEPT ![u] = "done"]
         /\ UNCHANGED <<users, presenter_id, is_presenter, capVars, todo, btype>>
    ELSE /\ users' = Without(users, u)
         /\ IF IsPresenter(u)
            THEN /\ running' = FALSE
                 /\ capture_task' = stop_capture_task
                 /\ \/ /\ StopRaises
                       /\ sent' = <<>>
                       /\ pc' = [pc EXCEPT ![u] = "crashed"]
                       /\ UNCHANGED <<presenter_id, is_presenter, todo, btype>>
                    \/ /\ StopWaits
                       /\ sent' = <<>>
                       /\ pc' = [pc EXCEPT ![u] = "disc_wait"]
                       /\ UNCHANGED <<presenter_id, is_presenter, todo, btype>>
                    \/ /\ StopReturns
                       /\ reassign(u, Without(users, u))
            ELSE /\ user_left(u, Without(users, u), presenter_id)
                 /\ UNCHANGED <<presenter_id, is_presenter, capVars>>

\* The read loop of websocket_handler ends (the peer closes, a socket
\* error): the finally clause runs _user_disconnected.
disconnect(u) ==
    /\ pc[u] = "reading"
    /\ user_disconnected(u)
    /\ UNCHANGED <<connected_at, now, setVars, iter, server>>
    /\ msg' = NoMsg
    /\ UNCHANGED envVars

\* the task awaited by stop_capture in _user_disconnected has finished
disconnect_resume(u) ==
    /\ pc[u] = "disc_wait"
    /\ reassign(u, users)
    /\ UNCHANGED <<users, connected_at, now, capVars, setVars, iter, server>>
    /\ msg' = NoMsg
    /\ UNCHANGED envVars

----------------------------------------------------------------------------
(* main: the shutdown, ScreenShareServer.cleanup *)

\* the loop closing every websocket (each close suspends), then users.clear()
cleanup_close ==
    IF users = <<>>
    THEN server' = "stopped"
    ELSE server' = "cleanup_close"

\* KeyboardInterrupt in main: cleanup() starts with stop_capture
cleanup ==
    /\ server = "serving"
    /\ running' = FALSE
    /\ capture_task' = stop_capture_task
    /\ sent' = <<>>
    /\ \/ StopRaises /\ server' = "stopped"
       \/ StopWaits /\ server' = "cleanup_stop"
       \/ StopReturns /\ cleanup_close
    /\ UNCHANGED <<regVars, setVars, pc, bcVars>>
    /\ msg' = NoMsg
    /\ UNCHANGED envVars

cleanup_resume ==
    /\ server = "cleanup_stop"
    /\ cleanup_close
    /\ sent' = <<>>
    /\ UNCHANGED <<regVars, capVars, setVars, pc, bcVars>>
    /\ msg' = NoMsg
    /\ UNCHANGED envVars

cleanup_clear ==
    /\ server = "cleanup_close"
    /\ users' = <<>>
    /\ server' = "stopped"
    /\ sent' = <<>>
    /\ UNCHANGED <<presenter_id, is_presenter, connected_at, now, capVars, setVars, pc, bcVars>>
    /\ msg' = NoMsg
    /\ UNCHANGED envVars

----------------------------------------------------------------------------
(* The registry and capture lifecycle, with Settings left as constructed *)

Next ==
    \/ \E u \in Ids : websocket_handler(u)
    \/ \E u \in Ids : welcome_resume(u)
    \/ \E u \in Ids : announce_resume(u)
    \/ \E u \in Ids : start_presenting(u)
    \/ \E u \in Ids : stop_presenting(u)
    \/ \E u \in Ids : stop_presenting_resume(u)
    \/ \E u \in Ids : request_presenter(u)
    \/ \E u \in Ids : disconnect(u)
    \/ \E u \in Ids : disconnect_resume(u)
    \/ \E u \in Ids : broadcast_resume(u)
    \/ capture_loop_dies
    \/ cleanup
    \/ cleanup_resume
    \/ cleanup_clear

Spec == Init /\ [][Next]_vars

----------------------------------------------------------------------------
(* Settings: ScreenCapture.update_settings / select_monitor and the three  *)
(* entry points that reach them.  A request field is <<>> when the key is  *)
(* absent from the JSON object (dict.get gives None) and <<v>> otherwise.  *)

\* The monitors mss reports on the host (sct.monitors[1:])
NumMonitors == 2
\* len(self.monitors): the list stays [] when mss is not available
len_monitors == IF mss_available THEN NumMonitors ELSE 0
\* get_monitors: the ids it lists; the one test monitor without mss
get_monitors == IF mss_available THEN 0..(NumMonitors - 1) ELSE {0}
\* Connections made in the specification of the settings entry points
SettingsUsers == 2
SettingsIds == 1..SettingsUsers

FpsIn == {<<>>, <<0>>, <<30>>, <<-1>>}
ResolutionIn == {<<>>, << <<640, 480>> >>}
QualityIn == {<<>>, <<50>>, <<101>>}
MonitorIn == {<<>>, <<1>>, <<NumMonitors>>}
\* Fields one request provides at most
MaxFields == 1
SettingsIn ==
    {s \in [fps : FpsIn, resolution : ResolutionIn,
            quality : QualityIn, monitor : MonitorIn] :
        Cardinality({f \in {"fps", "resolution", "quality", "monitor"} :
                        s[f] # <<>>}) <= MaxFields}

\* select_monitor: `0 <= monitor_id < len(self.monitors)`
select_monitor_ok(m) == 0 <= m /\ m < len_monitors

\* update_settings with the test of `quality` made on `fps`
update_settings_fps_twice(s) ==
    /\ target_fps' = IF s.fps # <<>> /\ s.fps[1] # 0
                     THEN s.fps[1] ELSE target_fps
    /\ target_resolution' = IF s.resolution # <<>> /\ s.resolution[1] # <<>>
                            THEN s.resolution[1] ELSE target_resolution
    /\ quality' = IF s.fps # <<>> /\ s.fps[1] # 0 /\ s.quality # <<>>
                  THEN s.quality[1] ELSE quality
    /\ selected_monitor' = IF s.monitor # <<>> /\ select_monitor_ok(s.monitor[1])
                           THEN s.monitor[1] ELSE selected_monitor

\* update_settings: `if fps and ...`, `if resolution and ...`,
\* `if quality and ...`, `if monitor is not None and self.select_monitor(monitor)`
update_settings(s) ==
    /\ target_fps' = IF s.fps # <<>> /\ s.fps[1] # 0
                     THEN s.fps[1] ELSE target_fps
    /\ target_resolution' = IF s.resolution # <<>> /\ s.resolution[1] # <<>>
                            THEN s.resolution[1] ELSE target_resolution
    /\ quality' = IF s.quality # <<>> /\ s.quality[1] # 0
                  THEN s.quality[1] ELSE quality
    /\ selected_monitor' = IF s.monitor # <<>> /\ select_monitor_ok(s.monitor[1])
                           THEN s.monitor[1] ELSE selected_monitor

\* _handle_settings_update: the settings_update command of the channel
handle_settings_update(u, s) ==
    /\ pc[u] = "reading"
    /\ IF ~IsPresenter(u)
       THEN /\ sent' = <<>>
            /\ UNCHANGED <<setVars, pc, todo, btype>>
       ELSE /\ update_settings(s)
            /\ broadcast(u, "settings_updated", "reading", users, <<>>)
    /\ UNCHANGED <<regVars, capVars, iter, server>>
    /\ msg' = NoMsg
    /\ UNCHANGED envVars

\* handle_settings: POST /settings
handle_settings(s) ==
    /\ server # "stopped"
    /\ update_settings(s)
    /\ sent' = <<>>
    /\ UNCHANGED <<regVars, capVars, pc, bcVars, server>>
    /\ msg' = NoMsg
    /\ UNCHANGED envVars

\* handle_monitor_selection: POST /select-monitor
handle_monitor_selection(m) ==
    /\ server # "stopped"
    /\ selected_monitor' = IF select_monitor_ok(m) THEN m ELSE selected_monitor
    /\ sent' = <<>>
    /\ UNCHANGED <<regVars, capVars, target_fps, target_resolution, quality,
                   pc, bcVars, server>>
    /\ msg' = NoMsg
    /\ UNCHANGED envVars

\* The settings entry points beside the registry, for SettingsUsers
\* connections, with the server in service and the capture task healthy.
NextSettings ==
    \/ \E u \in SettingsIds : websocket_handler(u)
    \/ \E u \in SettingsIds : welcome_resume(u)
    \/ \E u \in SettingsIds : announce_resume(u)
    \/ \E u \in SettingsIds : start_presenting(u)
    \/ \E u \in SettingsIds : stop_presenting(u)
    \/ \E u \in SettingsIds : stop_presenting_resume(u)
    \/ \E u \in SettingsIds : request_presenter(u)
    \/ \E u \in SettingsIds : disconnect(u)
    \/ \E u \in SettingsIds : disconnect_resume(u)
    \/ \E u \in SettingsIds : broadcast_resume(u)
    \/ \E u \in SettingsIds, s \in SettingsIn : handle_settings_update(u, s)
    \/ \E s \in SettingsIn : handle_settings(s)
    \/ \E m \in {0, 1, NumMonitors} : handle_monitor_selection(m)

SpecSettings == Init /\ [][NextSettings]_vars

\* The same entry points on a host with or without mss, and a negative id
MonitorIds == {-1, 0, 1, NumMonitors}
NextMonitors ==
    \/ NextSettings
    \/ \E m \in MonitorIds : handle_monitor_selection(m)

SpecMonitors == InitWith({"async"}, BOOLEAN) /\ [][NextMonitors]_vars

----------------------------------------------------------------------------
(* The read loop on text frames: json.loads, _handle_message, _handle_chat. *)
(* A frame is the kind of its JSON value and, for a chat_message whose     *)
(* 'message' is a string, that string as a sequence of characters.         *)

\* Chat lines a page is let to collect
MaxChatLines == 51
\* Connections made in the specification of the chat
ChatUsers == 2
ChatIds == 1..ChatUsers

ChatIn == {<<>>, <<" ">>, <<"a">>, <<" ", "a", "\t">>}
Frames ==
    {[kind |-> k, text |-> <<>>] :
        k \in {"invalid_json", "not_object", "unknown_type", "chat_not_string"}}
    \cup {[kind |-> "chat_message", text |-> t] : t \in ChatIn}

\* str.strip with the stripping left out
strip_nothing(t) == t

\* str.strip(): leading and trailing whitespace removed
Whitespace == {" ", "\t", "\n"}
RECURSIVE lstrip(_)
lstrip(t) == IF t # <<>> /\ Head(t) \in Whitespace THEN lstrip(Tail(t)) ELSE t
RECURSIVE rstrip(_)
rstrip(t) ==
    IF t # <<>> /\ t[Len(t)] \in Whitespace THEN rstrip(SubSeq(t, 1, Len(t) - 1)) ELSE t
strip(t) == rstrip(lstrip(t))

\* _handle_chat with a string
handle_chat(u, t) ==
    IF ~InUsers(u) \/ strip(t) = <<>>
    THEN /\ sent' = <<>>
         /\ UNCHANGED <<users, presenter_id, is_presenter, capVars, pc, todo, btype>>
    ELSE /\ \A v \in Ids : Len(chatMessages[v]) < MaxChatLines
         /\ broadcast_message(u, [Event("chat_message") EXCEPT !.text = strip(t)],
                              "reading", users, <<>>)
         /\ UNCHANGED <<users, presenter_id, is_presenter, capVars>>

\* One TEXT frame in the read loop of websocket_handler.  JSONDecodeError is
\* caught inside the loop; any other exception (AttributeError of
\* `data.get` on a JSON value that is no object, of `message.strip` on a
\* 'message' that is no string) leaves the loop through `except Exception`
\* and the finally clause runs _user_disconnected.
text_frame(u, d) ==
    /\ pc[u] = "reading"
    /\ msg' = [from |-> u, kind |-> d.kind, text |-> d.text]
    /\ CASE d.kind \in {"invalid_json", "unknown_type"} ->
                /\ sent' = <<>>
                /\ UNCHANGED <<users, presenter_id, is_presenter, capVars, pc, todo, btype>>
         [] d.kind = "not_object" -> user_disconnected(u)
         [] d.kind = "chat_not_string" ->
                IF InUsers(u)
                THEN user_disconnected(u)
                ELSE /\ sent' = <<>>
                     /\ UNCHANGED <<users, presenter_id, is_presenter, capVars, pc, todo, btype>>
         [] d.kind = "chat_message" -> handle_chat(u, d.text)
    /\ addChatMessage
    /\ UNCHANGED <<connected_at, now, setVars, iter, server, failing, thrVars, loopVars, sideVars>>

NextChat ==
    \/ \E u \in ChatIds : websocket_handler(u)
    \/ \E u \in ChatIds : welcome_resume(u)
    \/ \E u \in ChatIds : announce_resume(u)
    \/ \E u \in ChatIds : disconnect(u)
    \/ \E u \in ChatIds : broadcast_resume(u)
    \/ \E u \in ChatIds, d \in Frames : text_frame(u, d)

SpecChat == Init /\ [][NextChat]_vars

----------------------------------------------------------------------------
(* Failing channels.  The websocket of a registered user fails (the peer   *)
(* has gone, the connection was reset): from then on send_str to it        *)
(* raises.  _send_to_user, _broadcast and _broadcast_except catch and log  *)
(* the exception; the user's own handler ends when its read loop next      *)
(* runs (the action disconnect).                                           *)

channel_breaks(v) ==
    /\ InUsers(v)
    /\ v \notin failing
    /\ failing' = failing \cup {v}
    /\ sent' = <<>>
    /\ msg' = NoMsg
    /\ UNCHANGED <<regVars, capVars, setVars, pc, bcVars, server, chatMessages, thrVars, loopVars,
                   sideVars>>

\* The registry and the broadcasts over channels that may fail, with the
\* capture loop idle and the server in service.
NextDelivery ==
    \/ \E u \in Ids : websocket_handler(u)
    \/ \E u \in Ids : welcome_resume(u)
    \/ \E u \in Ids : announce_resume(u)
    \/ \E u \in Ids : request_presenter(u)
    \/ \E u \in Ids : disconnect(u)
    \/ \E u \in Ids : broadcast_resume(u)
    \/ \E u \in Ids : channel_breaks(u)

SpecDelivery == Init /\ [][NextDelivery]_vars

----------------------------------------------------------------------------
(* The thread-based captures: screen_capture.ScreenCapture ("queue") and   *)
(* simple_server.ScreenCaptureSimple ("simple").  start_capture and        *)
(* stop_capture are called by the threads of the application; the capture  *)
(* loop runs in a thread of its own.  A capture thread is at the test of   *)
(* `while self.running` ("loop"), inside a tick ("tick"), or has ended     *)
(* ("dead").                                                               *)

\* queue.Queue(maxsize=5)
QueueMax == 5

\* the server and the async capture take no step
idle_server ==
    /\ sent' = <<>>
    /\ msg' = NoMsg
    /\ UNCHANGED <<regVars, capture_task, setVars, pc, bcVars, server, failing,
                   chatMessages, impl, loopVars, sideVars>>

\* the guard of start_capture: `if self.running: return` in
\* screen_capture.ScreenCapture, none in ScreenCaptureSimple
StartIsNoOp == impl = "queue" /\ running

\* start_capture
start_capture_thread ==
    /\ impl \in {"queue", "simple"}
    /\ IF StartIsNoOp
       THEN UNCHANGED <<running, threads, capture_thread>>
       ELSE \E k \in ThreadIds :
               /\ threads[k] = "unborn"
               /\ \A j \in ThreadIds : j < k => threads[j] # "unborn"
               /\ running' = TRUE
               /\ threads' = [threads EXCEPT ![k] = "loop"]
               /\ capture_thread' = k
    /\ UNCHANGED <<joining, current_frame, frame_queue>>
    /\ idle_server

\* stop_capture up to the join: `self.running = False`, then
\* `self.capture_thread.join(timeout=1.0)` when the attribute exists; join
\* returns at once on a thread that has ended
stop_capture_thread ==
    /\ impl \in {"queue", "simple"}
    /\ joining = 0
    /\ running' = FALSE
    /\ joining' = IF capture_thread # 0 /\ threads[capture_thread] # "dead"
                  THEN capture_thread ELSE 0
    /\ UNCHANGED <<threads, capture_thread, current_frame, frame_queue>>
    /\ idle_server

\* join returns: the thread has ended, or the timeout has expired
join_returns ==
    /\ joining # 0
    /\ joining' = 0
    /\ UNCHANGED <<running, threads, capture_thread, current_frame, frame_queue>>
    /\ idle_server

\* `while self.running` tested by the capture thread k
capture_loop_test(k) ==
    /\ threads[k] = "loop"
    /\ threads' = [threads EXCEPT ![k] = IF running THEN "tick" ELSE "dead"]
    /\ UNCHANGED <<running, capture_thread, joining, current_frame, frame_queue>>
    /\ idle_server

\* put_nowait, and on queue.Full get_nowait of the oldest frame and put_nowait
put_frame(q, f) ==
    IF Len(q) < QueueMax THEN Append(q, f) ELSE Append(Tail(q), f)

\* a tick of the capture thread k that captures a frame: current_frame is
\* written, and in screen_capture.ScreenCapture the frame is queued
capture_tick(k) ==
    /\ threads[k] = "tick"
    /\ current_frame < MaxFrames
    /\ current_frame' = current_frame + 1
    /\ frame_queue' = IF impl = "queue" THEN put_frame(frame_queue, current_frame')
                      ELSE frame_queue
    /\ threads' = [threads EXCEPT ![k] = "loop"]
    /\ UNCHANGED <<running, capture_thread, joining>>
    /\ idle_server

\* a tick whose capture raises: screen_capture.ScreenCapture logs and goes
\* on with the next tick; ScreenCaptureSimple has no try, the thread ends
capture_tick_fails(k) ==
    /\ threads[k] = "tick"
    /\ threads' = [threads EXCEPT ![k] = IF impl = "queue" THEN "loop" ELSE "dead"]
    /\ UNCHANGED <<running, capture_thread, joining, current_frame, frame_queue>>
    /\ idle_server

NextThreads ==
    \/ start_capture_thread
    \/ stop_capture_thread
    \/ join_returns
    \/ \E k \in ThreadIds : capture_loop_test(k)
    \/ \E k \in ThreadIds : capture_tick(k)
    \/ \E k \in ThreadIds : capture_tick_fails(k)

SpecThreads == InitOf({"queue", "simple"}) /\ [][NextThreads]_vars

----------------------------------------------------------------------------
(* _capture_loop statement by statement: one capture object of either     *)
(* class, started once.  The thread of the thread-based classes runs      *)
(* beside its callers; the task of the asyncio class runs between its     *)
(* awaits, and the other coroutines run while it is suspended.            *)

\* Frames produced in one run
MaxGrabs == 7
\* Largest reading of time.time() in one run
MaxTime == 122
\* Time one capture takes
Durations == {0, 2, Second}
\* Time one capture that raises takes
FailDurations == {0, Second}

Max(a, b) == IF a >= b THEN a ELSE b

\* the session registry takes no step
idle_session ==
    /\ sent' = <<>>
    /\ msg' = NoMsg
    /\ UNCHANGED <<users, presenter_id, is_presenter, connected_at,
                   capture_task, pc, bcVars, server, failing, chatMessages,
                   impl, threads, capture_thread, joining, sideVars>>

\* The callers of the capture object run when the thread-based loop is
\* anywhere, and when the asyncio loop is not running: not started, in
\* `await asyncio.sleep`, or over.
Outside == impl # "async" \/ lp \in {"off", "enter", "sleep", "dead", "done"}

\* start_capture, the first call
start_capture_loop ==
    /\ lp = "off"
    /\ ~running
    /\ running' = TRUE
    /\ lp' = "enter"
    /\ UNCHANGED <<now, setVars, current_frame, frame_queue, frame, built,
                   grabbed, tick_start, frame_interval, next_frame_time,
                   frame_count, last_fps_time, actual_fps, window_ticks, read>>
    /\ idle_session

\* stop_capture: `self.running = False`; the asyncio task is cancelled where
\* it is suspended
stop_capture_loop ==
    /\ running
    /\ Outside
    /\ running' = FALSE
    /\ lp' = IF impl = "async" /\ lp \in {"enter", "sleep"} THEN "done" ELSE lp
    /\ UNCHANGED <<now, setVars, current_frame, frame_queue, frame, built,
                   grabbed, tick_start, frame_interval, next_frame_time,
                   frame_count, last_fps_time, actual_fps, window_ticks, read>>
    /\ idle_session

\* The statements before `while`: `frame_interval = 1.0 / self.target_fps`
\* in the loops of unified_server and simple_server, `next_frame_time =
\* time.time()` in the loop of screen_capture
loop_enter ==
    /\ lp = "enter"
    /\ lp' = "while"
    /\ frame_interval' = IF impl = "queue" THEN frame_interval
                         ELSE Interval(target_fps)
    /\ next_frame_time' = IF impl = "queue" THEN now ELSE next_frame_time
    /\ UNCHANGED <<now, running, setVars, current_frame, frame_queue, frame,
                   built, grabbed, tick_start, frame_count, last_fps_time,
                   actual_fps, window_ticks, read>>
    /\ idle_session

\* `while self.running:` and `start_time = time.time()`
loop_test ==
    /\ lp = "while"
    /\ lp' = IF running THEN "grab" ELSE "done"
    /\ tick_start' = IF running THEN now ELSE tick_start
    /\ UNCHANGED <<now, running, setVars, current_frame, frame_queue, frame,
                   built, grabbed, frame_interval, next_frame_time,
                   frame_count, last_fps_time, actual_fps, window_ticks, read>>
    /\ idle_session

\* `self.sct.grab(monitor)` returns after d: the tick has a new frame, still
\* to convert
grab(d) ==
    /\ lp = "grab"
    /\ now + d <= MaxTime
    /\ grabbed < MaxGrabs
    /\ now' = now + d
    /\ grabbed' = grabbed + 1
    /\ frame' = grabbed + 1
    /\ built' = FALSE
    /\ lp' = "convert"
    /\ UNCHANGED <<running, setVars, current_frame, frame_queue, tick_start,
                   frame_interval, next_frame_time, frame_count,
                   last_fps_time, actual_fps, window_ticks, read>>
    /\ idle_session

\* `self.sct.grab(monitor)` raises after d: the except clause of the loops
\* of unified_server and screen_capture; no try in simple_server, the
\* exception ends the thread
grab_fails(d) ==
    /\ lp = "grab"
    /\ now + d <= MaxTime
    /\ now' = now + d
    /\ lp' = IF impl = "simple" THEN "dead" ELSE "except"
    /\ UNCHANGED <<running, setVars, current_frame, frame_queue, frame, built,
                   grabbed, tick_start, frame_interval, next_frame_time,
                   frame_count, last_fps_time, actual_fps, window_ticks, read>>
    /\ idle_session

\* the conversion left for after the assignment to current_frame
convert_later ==
    /\ lp = "convert"
    /\ lp' = "publish"
    /\ UNCHANGED <<now, running, setVars, current_frame, frame_queue, frame,
                   built, grabbed, tick_start, frame_interval, next_frame_time,
                   frame_count, last_fps_time, actual_fps, window_ticks, read>>
    /\ idle_session

\* np.array, cvtColor, resize (and imencode, b64encode): the frame of the
\* tick is complete
convert ==
    /\ lp = "convert"
    /\ built' = TRUE
    /\ lp' = "publish"
    /\ UNCHANGED <<now, running, setVars, current_frame, frame_queue, frame,
                   grabbed, tick_start, frame_interval, next_frame_time,
                   frame_count, last_fps_time, actual_fps, window_ticks, read>>
    /\ idle_session

\* `self.current_frame = frame`
publish ==
    /\ lp = "publish"
    /\ current_frame' = frame
    /\ lp' = "fps"
    /\ UNCHANGED <<now, running, setVars, frame_queue, frame, built, grabbed,
                   tick_start, frame_interval, next_frame_time, frame_count,
                   last_fps_time, actual_fps, window_ticks, read>>
    /\ idle_session

\* `self.frame_count += 1` and _update_fps.  unified_server divides the
\* frame_count, never reset, by the time since start_time; screen_capture
\* divides by the time since last_fps_time and resets the frame_count;
\* simple_server has the frame_count alone.
update_fps ==
    /\ lp = "fps"
    /\ lp' = IF impl = "queue" THEN "put" ELSE "pace"
    /\ IF impl # "simple" /\ now - last_fps_time >= Second
       THEN /\ actual_fps' =
                  IF impl = "queue"
                  THEN <<frame_count + 1, now - last_fps_time>>
                  ELSE IF now > StartTime
                       THEN <<frame_count + 1, now - StartTime>>
                       ELSE <<0, 1>>
            /\ frame_count' = IF impl = "queue" THEN 0 ELSE frame_count + 1
            /\ last_fps_time' = now
            /\ window_ticks' = 0
       ELSE /\ frame_count' = frame_count + 1
            /\ window_ticks' = window_ticks + 1
            /\ UNCHANGED <<actual_fps, last_fps_time>>
    /\ UNCHANGED <<now, running, setVars, current_frame, frame_queue, frame,
                   built, grabbed, tick_start, frame_interval,
                   next_frame_time, read>>
    /\ idle_session

\* `self.frame_queue.put_nowait(frame)`: queue.Full when the queue holds
\* QueueMax frames
put_nowait ==
    /\ lp = "put"
    /\ IF Len(frame_queue) < QueueMax
       THEN /\ frame_queue' = Append(frame_queue, frame)
            /\ lp' = "pace"
       ELSE /\ lp' = "full"
            /\ UNCHANGED frame_queue
    /\ UNCHANGED <<now, running, setVars, current_frame, frame, built, grabbed,
                   tick_start, frame_interval, next_frame_time, frame_count,
                   last_fps_time, actual_fps, window_ticks, read>>
    /\ idle_session

\* `except queue.Full:` `self.frame_queue.get_nowait()`; on queue.Empty
\* `pass`
drop_oldest ==
    /\ lp = "full"
    /\ IF frame_queue # <<>>
       THEN /\ frame_queue' = Tail(frame_queue)
            /\ lp' = "again"
       ELSE /\ lp' = "pace"
            /\ UNCHANGED frame_queue
    /\ UNCHANGED <<now, running, setVars, current_frame, frame, built, grabbed,
                   tick_start, frame_interval, next_frame_time, frame_count,
                   last_fps_time, actual_fps, window_ticks, read>>
    /\ idle_session

\* the second `self.frame_queue.put_nowait(frame)`: the loop is the only
\* producer, the queue has room
put_again ==
    /\ lp = "again"
    /\ frame_queue' = Append(frame_queue, frame)
    /\ lp' = "pace"
    /\ UNCHANGED <<now, running, setVars, current_frame, frame, built, grabbed,
                   tick_start, frame_interval, next_frame_time, frame_count,
                   last_fps_time, actual_fps, window_ticks, read>>
    /\ idle_session

\* The except clause.  unified_server: `self.current_frame =
\* self._generate_test_frame()`, a frame of its own, and on to the pacing;
\* screen_capture: `continue`.
except_clause ==
    /\ lp = "except"
    /\ IF impl = "async"
       THEN /\ grabbed < MaxGrabs
            /\ grabbed' = grabbed + 1
            /\ current_frame' = grabbed + 1
            /\ lp' = "pace"
       ELSE /\ lp' = "while"
            /\ UNCHANGED <<grabbed, current_frame>>
    /\ UNCHANGED <<now, running, setVars, frame_queue, frame, built,
                   tick_start, frame_interval, next_frame_time, frame_count,
                   last_fps_time, actual_fps, window_ticks, read>>
    /\ idle_session

\* _generate_test_frame raises in the except clause of unified_server (it
\* catches ImportError alone): the exception ends the task
except_raises ==
    /\ lp = "except"
    /\ impl = "async"
    /\ lp' = "dead"
    /\ UNCHANGED <<now, running, setVars, current_frame, frame_queue, frame,
                   built, grabbed, tick_start, frame_interval,
                   next_frame_time, frame_count, last_fps_time, actual_fps,
                   window_ticks, read>>
    /\ idle_session

\* next_frame_time without the `else` branch
Rescheduled_onward == next_frame_time + frame_interval

\* next_frame_time after `next_frame_time += self.frame_interval` and, when
\* `sleep_time > 0` is false, `next_frame_time = time.time()`
Rescheduled ==
    IF next_frame_time + frame_interval - now > 0
    THEN next_frame_time + frame_interval ELSE now

\* `sleep_time`: `max(0, frame_interval - elapsed)` in unified_server and
\* simple_server, `next_frame_time - time.time()` in screen_capture
sleep_time ==
    IF impl = "queue" THEN next_frame_time + frame_interval - now
    ELSE Max(0, frame_interval - (now - tick_start))

\* "Maintain target FPS" up to the call of sleep
pace ==
    /\ lp = "pace"
    /\ lp' = IF sleep_time > 0 THEN "sleep" ELSE "while"
    /\ next_frame_time' = IF impl = "queue" THEN Rescheduled ELSE next_frame_time
    /\ UNCHANGED <<now, running, setVars, current_frame, frame_queue, frame,
                   built, grabbed, tick_start, frame_interval, frame_count,
                   last_fps_time, actual_fps, window_ticks, read>>
    /\ idle_session

\* the time at which the sleep of the tick ends
WakeTime == IF impl = "queue" THEN next_frame_time ELSE tick_start + frame_interval

\* `time.sleep(sleep_time)` / `await asyncio.sleep(sleep_time)` returns
sleep_returns ==
    /\ lp = "sleep"
    /\ Max(now, WakeTime) <= MaxTime
    /\ now' = Max(now, WakeTime)
    /\ lp' = "while"
    /\ UNCHANGED <<running, setVars, current_frame, frame_queue, frame, built,
                   grabbed, tick_start, frame_interval, next_frame_time,
                   frame_count, last_fps_time, actual_fps, window_ticks, read>>
    /\ idle_session

\* get_current_frame / get_latest_frame / serve_stream
get_current_frame ==
    /\ Outside
    /\ read' = current_frame
    /\ UNCHANGED <<now, running, setVars, current_frame, frame_queue, lp, frame,
                   built, grabbed, tick_start, frame_interval,
                   next_frame_time, frame_count, last_fps_time, actual_fps,
                   window_ticks>>
    /\ idle_session

\* get_frame_from_queue of a consumer thread, when it returns a frame
get_frame_from_queue ==
    /\ impl = "queue"
    /\ frame_queue # <<>>
    /\ frame_queue' = Tail(frame_queue)
    /\ UNCHANGED <<now, running, setVars, current_frame, lp, frame, built,
                   grabbed, tick_start, frame_interval, next_frame_time,
                   frame_count, last_fps_time, actual_fps, window_ticks, read>>
    /\ idle_session

\* fps values of update_settings while the loop runs
LoopFpsIn == {30}

\* update_settings(fps=f) of unified_server and simple_server;
\* screen_capture.ScreenCapture has no update_settings
set_fps(f) ==
    /\ impl # "queue"
    /\ Outside
    /\ update_settings([fps |-> <<f>>, resolution |-> <<>>, quality |-> <<>>,
                        monitor |-> <<>>])
    /\ UNCHANGED <<now, running, current_frame, frame_queue, loopVars>>
    /\ idle_session

\* The loop beside a reader of current_frame and a consumer of the queue,
\* with captures that take no time.
NextLoop ==
    \/ start_capture_loop
    \/ stop_capture_loop
    \/ loop_enter
    \/ loop_test
    \/ grab(0)
    \/ grab_fails(0)
    \/ convert
    \/ publish
    \/ update_fps
    \/ put_nowait
    \/ drop_oldest
    \/ put_again
    \/ except_clause
    \/ except_raises
    \/ pace
    \/ sleep_returns
    \/ get_current_frame
    \/ get_frame_from_queue

SpecLoop == InitOf({"async", "queue", "simple"}) /\ [][NextLoop]_vars

\* The loop with captures of every duration and changes of the fps.
NextPacing ==
    \/ start_capture_loop
    \/ stop_capture_loop
    \/ loop_enter
    \/ loop_test
    \/ \E d \in Durations : grab(d)
    \/ \E d \in FailDurations : grab_fails(d)
    \/ convert
    \/ publish
    \/ update_fps
    \/ put_nowait
    \/ drop_oldest
    \/ put_again
    \/ except_clause
    \/ except_raises
    \/ pace
    \/ sleep_returns
    \/ \E f \in LoopFpsIn : set_fps(f)

SpecPacing == InitOf({"async", "queue", "simple"}) /\ [][NextPacing]_vars

----------------------------------------------------------------------------
(* WebRTCServer (src/webrtc_server.py): the signalling websockets, the     *)
(* peer connections created by handle_offer, and cleanup.  One asyncio     *)
(* event loop: an action is one run of a coroutine between two awaits.     *)

\* the unified server, the capture loop and the application take no step
idle_beside_rtc ==
    UNCHANGED <<regVars, capVars, setVars, pc, bcVars, server, sent, msg,
                failing, chatMessages, thrVars, loopVars, mss_available>>

\* websocket_handler: a signalling websocket is opened and added
websocket_connect(w) ==
    /\ app # "done"
    /\ sock[w] = "unborn"
    /\ sock' = [sock EXCEPT ![w] = "open"]
    /\ websockets' = websockets \cup {w}
    /\ UNCHANGED <<connections, peer, offer, rtc, closing, appVars>>
    /\ idle_beside_rtc

\* websocket_handler: the read loop ends (the peer has gone, or the socket
\* was closed by cleanup); `finally: self.websockets.discard(ws)`
websocket_ends(w) ==
    /\ app # "done"
    /\ sock[w] \in {"open", "closed"}
    /\ sock' = [sock EXCEPT ![w] = "ended"]
    /\ websockets' = websockets \ {w}
    /\ UNCHANGED <<connections, peer, offer, rtc, closing, appVars>>
    /\ idle_beside_rtc

\* handle_offer up to its first await: the peer connection is created and
\* added to `connections`; `data["sdp"]` raises KeyError when the message
\* has no sdp (the error reply is sent), else setRemoteDescription is awaited
handle_offer(w, p, has_sdp) ==
    /\ app # "done"
    /\ sock[w] = "open"
    /\ peer[p] = "unborn"
    /\ \A q \in PeerIds : q < p => peer[q] # "unborn"
    /\ peer' = [peer EXCEPT ![p] = "open"]
    /\ connections' = connections \cup {p}
    /\ offer' = [offer EXCEPT ![p] = IF has_sdp THEN "waiting" ELSE "failed"]
    /\ UNCHANGED <<websockets, sock, rtc, closing, appVars>>
    /\ idle_beside_rtc

\* handle_offer from setRemoteDescription on: the description is accepted
\* and the answer is sent, or one of the awaited calls raises (they do on a
\* closed peer connection) and the error reply is sent
offer_resume(p, accepted) ==
    /\ app # "done"
    /\ offer[p] = "waiting"
    /\ offer' = [offer EXCEPT ![p] = IF accepted /\ peer[p] = "open"
                                     THEN "answered" ELSE "failed"]
    /\ UNCHANGED <<connections, peer, websockets, sock, rtc, closing, appVars>>
    /\ idle_beside_rtc

\* cleanup from the end of the loop over the peer connections:
\* connections.clear(), then the loop over websockets.copy(), and
\* websockets.clear() when there is nothing to close
clear_connections_then ==
    /\ connections' = {}
    /\ closing' = websockets
    /\ rtc' = IF websockets = {} THEN "cleaned" ELSE "close_ws"
    /\ UNCHANGED websockets

\* cleanup up to its first await
cleanup_begin ==
    IF connections = {}
    THEN clear_connections_then
    ELSE /\ closing' = connections
         /\ rtc' = "close_pcs"
         /\ UNCHANGED <<connections, websockets>>

\* the coroutine that awaits cleanup goes on when cleanup has returned
cleanup_returns == app' = IF app = "cleanup_wait" /\ rtc' = "cleaned" THEN "done" ELSE app

\* WebRTCServer.cleanup called
webrtc_cleanup ==
    /\ app = "new"
    /\ rtc = "serving"
    /\ cleanup_begin
    /\ UNCHANGED <<peer, offer, sock, appVars>>
    /\ idle_beside_rtc

\* `await pc.close()` for one peer connection of the copy; the
\* connectionstatechange handler discards the closed connection
close_pc(p) ==
    /\ rtc = "close_pcs"
    /\ p \in closing
    /\ peer' = [peer EXCEPT ![p] = "closed"]
    /\ connections' = connections \ {p}
    /\ closing' = closing \ {p}
    /\ UNCHANGED <<offer, websockets, sock, rtc, appVars>>
    /\ idle_beside_rtc

\* the loop over connections.copy() is over
clear_connections ==
    /\ rtc = "close_pcs"
    /\ closing = {}
    /\ clear_connections_then
    /\ cleanup_returns
    /\ UNCHANGED <<peer, offer, sock, app_running, cleanups, stop_called>>
    /\ idle_beside_rtc

\* `await ws.close()` for one websocket of the copy
close_ws(w) ==
    /\ rtc = "close_ws"
    /\ w \in closing
    /\ sock' = [sock EXCEPT ![w] = IF sock[w] = "open" THEN "closed" ELSE sock[w]]
    /\ closing' = closing \ {w}
    /\ UNCHANGED <<connections, peer, offer, websockets, rtc, appVars>>
    /\ idle_beside_rtc

\* the loop over websockets.copy() is over: websockets.clear()
clear_websockets ==
    /\ rtc = "close_ws"
    /\ closing = {}
    /\ websockets' = {}
    /\ rtc' = "cleaned"
    /\ cleanup_returns
    /\ UNCHANGED <<connections, peer, offer, sock, closing, app_running,
                   cleanups, stop_called>>
    /\ idle_beside_rtc

NextWebRTC ==
    \/ \E w \in SocketIds : websocket_connect(w)
    \/ \E w \in SocketIds : websocket_ends(w)
    \/ \E w \in SocketIds, p \in PeerIds, has_sdp \in BOOLEAN : handle_offer(w, p, has_sdp)
    \/ \E p \in PeerIds, accepted \in BOOLEAN : offer_resume(p, accepted)
    \/ webrtc_cleanup
    \/ \E p \in PeerIds : close_pc(p)
    \/ clear_connections
    \/ \E w \in SocketIds : close_ws(w)
    \/ clear_websockets

SpecWebRTC == InitOf({"queue"}) /\ [][NextWebRTC]_vars

----------------------------------------------------------------------------
(* ScreenShareApp (src/main.py): start, stop and cleanup, with the capture *)
(* thread of screen_capture.ScreenCapture and the WebRTCServer above.      *)
(* start() is "new" before it runs, "starting" in `await start_server()`,  *)
(* "sleeping" in `await asyncio.sleep(1)`, "cleanup_wait" in the await of  *)
(* WebRTCServer.cleanup, and "done" when cleanup has returned.             *)

\* the unified server and the statements of the capture loop take no step
idle_beside_app ==
    UNCHANGED <<regVars, capture_task, setVars, pc, bcVars, server, sent, msg,
                failing, chatMessages, impl, joining, current_frame,
                frame_queue, loopVars, mss_available>>

\* cleanup: stop_capture when the capture object exists (`running = False`
\* and the join, which returns when the thread has ended or after 1.0 s),
\* then WebRTCServer.cleanup when the server object exists
app_cleanup(has_capture, has_server) ==
    /\ cleanups' = cleanups + 1
    /\ running' = IF has_capture THEN FALSE ELSE running
    /\ IF has_server
       THEN /\ cleanup_begin
            /\ app' = IF rtc' = "cleaned" THEN "done" ELSE "cleanup_wait"
       ELSE /\ app' = "done"
            /\ UNCHANGED <<connections, websockets, rtc, closing>>
    /\ UNCHANGED <<peer, offer, sock, app_running, stop_called, threads,
                   capture_thread>>
    /\ idle_beside_app

\* start() up to `await self.webrtc_server.start_server()`: the two objects
\* are constructed and the capture thread is started; or the constructor of
\* ScreenCapture raises and `finally` runs cleanup with no object to stop
app_start(constructed) ==
    /\ app = "new"
    /\ IF constructed
       THEN /\ running' = TRUE
            /\ threads' = [threads EXCEPT ![1] = "loop"]
            /\ capture_thread' = 1
            /\ app' = "starting"
            /\ UNCHANGED <<rtcVars, app_running, cleanups, stop_called>>
            /\ idle_beside_app
       ELSE app_cleanup(FALSE, FALSE)

\* start_server has returned: `self.running = True`, then the first sleep
app_server_started ==
    /\ app = "starting"
    /\ app_running' = TRUE
    /\ app' = "sleeping"
    /\ UNCHANGED <<running, threads, capture_thread, rtcVars, cleanups, stop_called>>
    /\ idle_beside_app

\* start_server raises (the port is taken): `except Exception`, `finally`
app_server_fails ==
    /\ app = "starting"
    /\ app_cleanup(TRUE, TRUE)

\* the sleep has returned and `while self.running` is False: `finally`
\* (while it is True the loop sleeps again)
app_wake ==
    /\ app = "sleeping"
    /\ ~app_running
    /\ app_cleanup(TRUE, TRUE)

\* stop(): `self.running = False`, called by the signal handler of main()
stop ==
    /\ app \in {"starting", "sleeping", "cleanup_wait"}
    /\ app_running' = FALSE
    /\ stop_called' = TRUE
    /\ UNCHANGED <<running, threads, capture_thread, rtcVars, app, cleanups>>
    /\ idle_beside_app

\* KeyboardInterrupt raised in start() at one of its awaits
interrupt ==
    /\ app \in {"starting", "sleeping"}
    /\ app_cleanup(TRUE, TRUE)

\* the server is listening: start_server has returned, cleanup has not
Listening == app \in {"sleeping", "cleanup_wait"}

\* the steps the event loop takes by itself: start-up, the timer of the
\* sleep, and the awaits of cleanup
AppSteps ==
    \/ \E constructed \in BOOLEAN : app_start(constructed)
    \/ app_server_started
    \/ app_server_fails
    \/ app_wake
    \/ \E p \in PeerIds : close_pc(p)
    \/ clear_connections
    \/ \E w \in SocketIds : close_ws(w)
    \/ clear_websockets

NextApp ==
    \/ AppSteps
    \/ stop
    \/ interrupt
    \/ Listening /\ \E w \in SocketIds : websocket_connect(w)
    \/ Listening /\ \E w \in SocketIds : websocket_ends(w)
    \/ Listening /\ \E w \in SocketIds, p \in PeerIds, has_sdp \in BOOLEAN : handle_offer(w, p, has_sdp)
    \/ Listening /\ \E p \in PeerIds, accepted \in BOOLEAN : offer_resume(p, accepted)
    \/ \E k \in ThreadIds : capture_loop_test(k)
    \/ \E k \in ThreadIds : capture_tick(k)

\* The event loop runs every coroutine that is ready; signals, peers and
\* the capture thread come when they come.
SpecApp == InitOf({"queue"}) /\ [][NextApp]_vars /\ WF_vars(AppSteps)

----------------------------------------------------------------------------
(* Properties *)

Registered == Range(users)
Presenters == {u \in Registered : is_presenter[u]}
Ended(u) == pc[u] \in {"done", "crashed"}

\* C1: in every reachable state at most one registered user has
\* is_presenter = True.
C1_AtMostOnePresenter == Cardinality(Presenters) <= 1

\* C2: in every reachable state presenter_id is None or the id of a user
\* that is in `users`.
C2_PresenterIsRegistered == presenter_id = NoUser \/ presenter_id \in Registered

\* The position of a registered user in the insertion order of `users`
Position(U, u) == CHOOSE i \in 1..Len(U) : U[i] = u
\* The user of U with the earliest connected_at, the insertion order
\* deciding between equal times
EarliestJoined(U) ==
    CHOOSE e \in Range(U) : \A x \in Range(U) \ {e} :
        \/ connected_at[e] < connected_at[x]
        \/ connected_at[e] = connected_at[x] /\ Position(U, e) < Position(U, x)
\* The step in which _user_disconnected(u), called for the presenter, gets
\* past stop_capture: at once, or when the awaited task has finished
PresenterLeaves(u) ==
    /\ \/ pc[u] = "reading" /\ u \in Registered /\ presenter_id = u
       \/ pc[u] = "disc_wait"
    /\ pc'[u] \in {"left", "done"}

C4_EndedHandlerIsRemoved == \A u \in Ids : Ended(u) => u \notin Registered

\* C5: after request_presenter from a registered participant u,
\* presenter_id = u, u has is_presenter = True and the previous presenter,
\* if registered and different from u, has is_presenter = False.
C5_RequestPresenterTakesOver ==
    [][\A u \in Ids : request_presenter(u) /\ u \in Registered =>
          /\ presenter_id' = u
          /\ is_presenter'[u]
          /\ (presenter_id \in Registered \ {u}) => ~is_presenter'[presenter_id]]_vars

\* C5 witness: 2 has just taken the presenter role from 1, who is still
\* registered.
C5_Witness ==
    /\ {1, 2} \subseteq Registered
    /\ presenter_id = 2 /\ is_presenter[2] /\ ~is_presenter[1]
    /\ sent # <<>> /\ sent[1].type = "presenter_changed"

\* The step in which the connection of u registers
Joins(u) == pc[u] = "idle" /\ pc'[u] # "idle"

C7_StartByViewerIsRefused ==
    [][\A u \in Ids : start_presenting(u) /\ u \in Registered /\ presenter_id # u =>
          /\ sent' = <<Msg(u, "error")>>
          /\ UNCHANGED <<running, capture_task, pc>>]_vars

\* C7 witness: viewer 2 has just been refused while presenter 1 is
\* registered and the capture loop is idle.
C7_Witness ==
    /\ {1, 2} \subseteq Registered
    /\ presenter_id = 1
    /\ sent = <<Msg(2, "error")>>
    /\ ~running

\* C8: stop_presenting from a registered participant who is not the
\* presenter sends one `error` event, to the sender, and leaves `running`
\* unchanged.
C8_StopByViewerIsRefused ==
    [][\A u \in Ids : stop_presenting(u) /\ u \in Registered /\ presenter_id # u =>
          /\ sent' = <<Msg(u, "error")>>
          /\ running' = running]_vars

\* C9: settings_update from a registered participant who is not the
\* presenter leaves every Settings field unchanged and sends an `error`
\* event to the sender.
C9_SettingsByViewerIsRefused ==
    [][\A u \in Ids, s \in SettingsIn :
          handle_settings_update(u, s) /\ u \in Registered /\ presenter_id # u =>
             /\ UNCHANGED setVars
             /\ sent' = <<Msg(u, "error")>>]_vars

\* C10: Settings change only in a step that serves a settings_update of the
\* participant who is the presenter at that moment.
C10_SettingsChangeOnlyByPresenter ==
    [][setVars' # setVars =>
          \E u \in Ids, s \in SettingsIn :
              /\ presenter_id = u
              /\ u \in Registered
              /\ handle_settings_update(u, s)]_vars

\* The users to whom the send_str calls S carry a message of the given type
Recipients(S, type) == {S[i].to : i \in {j \in 1..Len(S) : S[j].type = type}}
\* A step of the handler of u sends the message to every user of U, or has
\* sent it to some and holds the others in the suspended _broadcast
Covers(u, type, U) ==
    /\ Range(U) \subseteq Recipients(sent', type) \cup Range(todo'[u])
    /\ todo'[u] # <<>> => btype'[u].type = type
\* A suspended _broadcast of the handler of u loses nobody who is registered
Continues(u) ==
    \A v \in Range(todo[u]) :
        \/ v \in Range(todo'[u])
        \/ v \notin Registered
        \/ v \in Recipients(sent', btype[u].type)

\* C11: start_presenting from the presenter leaves the capture loop running
\* and sends presentation_started to every registered user; stop_presenting
\* from the presenter leaves it not running and, once stop_capture is over,
\* sends presentation_stopped to every registered user; a suspended
\* broadcast goes on to every user who is still registered.
C11_PresenterStartsAndStops ==
    [][\A u \in Ids :
          /\ start_presenting(u) /\ u \in Registered /\ presenter_id = u =>
                /\ running'
                /\ Covers(u, "presentation_started", users)
          /\ stop_presenting(u) /\ u \in Registered /\ presenter_id = u =>
                /\ ~running'
                /\ pc'[u] = "stop_wait" \/ Covers(u, "presentation_stopped", users)
          /\ pc[u] = "stop_wait" /\ pc'[u] # "stop_wait" =>
                Covers(u, "presentation_stopped", users)
          /\ btype[u].type \in {"presentation_started", "presentation_stopped"} =>
                Continues(u)]_vars

\* The step in which the handler of u reads a frame of one of the kinds
Reads(u, kinds) == pc[u] = "reading" /\ msg'.from = u /\ msg'.kind \in kinds

\* C12: a text frame that is invalid JSON, a JSON value that is no object,
\* an object of unknown type or a chat_message whose text is no string
\* changes neither the registry nor Settings nor the capture state, sends
\* nothing, and leaves the sender registered with its handler reading.
C12_MalformedFrameIsIgnored ==
    [][\A u \in Ids :
          Reads(u, {"invalid_json", "not_object", "unknown_type", "chat_not_string"}) =>
             /\ UNCHANGED <<regVars, capVars, setVars>>
             /\ pc'[u] = "reading"
             /\ u \in Registered => u \in Range(users')]_vars

\* A text of whitespace characters only (the empty text included)
Blank(t) == \A i \in 1..Len(t) : t[i] \in Whitespace

\* C13: a chat_message whose text is empty or whitespace only, from any
\* participant, sends nothing to anybody, starts no broadcast and adds no
\* line to any page's chat.
C13_BlankChatIsDropped ==
    [][\A u \in Ids : Reads(u, {"chat_message"}) /\ Blank(msg'.text) =>
          /\ sent' = <<>>
          /\ UNCHANGED <<todo, btype, pc, chatMessages>>]_vars

\* C13 witness: viewer 2 has just sent a chat_message of one blank, with 1
\* registered and a chat line already shown; nothing was sent.
C13_Witness ==
    /\ msg = [from |-> 2, kind |-> "chat_message", text |-> <<" ">>]
    /\ users = <<1, 2>>
    /\ presenter_id = 1
    /\ chatMessages[1] # <<>>
    /\ sent = <<>>

\* C14: no chat log ever holds more than 50 entries.
C14_ChatLogIsCapped == \A u \in Ids : Len(chatMessages[u]) <= 50

\* The users registered when u joined (those with a lower id) that the
\* _broadcast_except of the handler of u has still to send to: all of them
\* before its first send, the entries after the iterator's position later
Pending(u) ==
    IF pc[u] = "welcome" THEN {v \in Registered : v < u}
    ELSE IF pc[u] = "announce" THEN {v \in Registered : v < u /\ v > iter[u].pos}
    ELSE {}
\* A user has been removed from `users` while the _broadcast_except of the
\* handler of u was suspended, and nobody has joined
RemovedMeanwhile(u) == pc[u] = "announce" /\ Len(users) < iter[u].used

\* C15: a broadcast during which an addressee has been removed does not
\* raise, and whatever happens to one addressee (its send raises, it leaves
\* while the broadcast is suspended), every other user the broadcast has
\* still to reach, who stays registered with a healthy channel, is sent the
\* event or is still to be sent it.
C15_BroadcastReachesTheOthers ==
    [][\A u \in Ids :
          /\ RemovedMeanwhile(u) => pc'[u] # "crashed"
          /\ \A v \in Range(todo[u]) \ Failing :
                \/ v \in Range(todo'[u])
                \/ v \notin Range(users')
                \/ v \in Recipients(sent', btype[u].type)
          /\ \A v \in Pending(u) \ Failing :
                \/ v \in Pending(u)'
                \/ v \notin Range(users')
                \/ v \in Recipients(sent', "user_joined")]_vars

\* The users to whom a send_str of the step has raised
FailedSends == {sent'[i].to : i \in 1..Len(sent')} \cap Failing

\* C16: a user to whom a send has failed is removed from the registry by
\* the step in which the send failed.
C16_FailedDeliveryRemovesUser ==
    [][\A v \in FailedSends : v \notin Range(users')]_vars

\* The messages of the step's send_str calls S that do not name p as the
\* new presenter in a message of the given type
Names(S, type, p) ==
    \A i \in 1..Len(S) : S[i].type = type => S[i].new_presenter = p
\* The step in which the handler of u changes the presenter to a user
PresenterChanges(u) ==
    /\ request_presenter(u) \/ PresenterLeaves(u)
    /\ presenter_id' # presenter_id
    /\ presenter_id' # NoUser

ChangeEvent(u) == IF request_presenter(u) THEN "presenter_changed" ELSE "user_left"

Addressees(S) == {S[i].to : i \in 1..Len(S)}
\* The first send_str call of the step to the user u
FirstTo(S, u) == S[Min({i \in 1..Len(S) : S[i].to = u})]

\* C18: nothing is sent to a connection before its handler has registered
\* it, and the first message sent to it, in the step that registers it, is
\* the welcome carrying its own id, the role the registry records for it at
\* that moment and a list of users that contains it.
C18_WelcomeComesFirst ==
    [][\A u \in Ids : pc[u] = "idle" /\ u \in Addressees(sent') =>
          /\ Joins(u)
          /\ FirstTo(sent', u).type = "welcome"
          /\ FirstTo(sent', u).user_id = u
          /\ FirstTo(sent', u).is_presenter = is_presenter'[u]
          /\ u \in Range(FirstTo(sent', u).users)
          /\ u \in Range(users')]_vars

\* C18 witness: 2 has joined a room in which 1 presents, its welcome is
\* being sent (the handler is suspended in it), and the user_left of 1's
\* disconnect is sent to 2 after it.
C18_Witness ==
    /\ pc[2] = "welcome"
    /\ pc[1] = "done"
    /\ Recipients(sent, "user_left") = {2}
    /\ presenter_id = 2

\* C19: start_capture called while `running` is True creates no thread and
\* changes no capture state, in the thread-based captures as in the async
\* one.
C19_StartWhileRunningIsNoOp ==
    [][start_capture_thread /\ running =>
          UNCHANGED <<running, threads, capture_thread, current_frame, frame_queue>>]_vars

\* C20: once stop_capture has returned, and until the next start_capture,
\* no tick writes current_frame or the frame queue: a write happens only
\* while `running` is True or a stop_capture is still waiting.
C20_NoWriteAfterStopReturns ==
    [][current_frame' # current_frame \/ frame_queue' # frame_queue =>
          running \/ joining # 0]_vars

\* C24: whatever integer values the settings updates carry, the Settings
\* keep fps > 0 and quality within 1..100.
C24_SettingsStayValid ==
    /\ target_fps > 0
    /\ quality \in 1..100

\* The step in which the handler of the presenter u serves settings_update
\* with the settings s.  The presenter is registered, so that _broadcast
\* sends at least once in the step.
PresenterUpdates(u, s) ==
    /\ presenter_id = u /\ u \in Registered
    /\ sent' # <<>>
    /\ handle_settings_update(u, s)
\* The value a field takes when the request provides v (<<>>: omitted)
Provided(v, old) == IF v # <<>> THEN v[1] ELSE old
\* and when only a value that is not 0 counts
ProvidedNonZero(v, old) == IF v # <<>> /\ v[1] # 0 THEN v[1] ELSE old

\* C25 as stated: a settings_update from the presenter sets every field it
\* provides to the provided value, leaves the fields it omits unchanged and
\* sends settings_updated to every registered user.
C25_UpdateSetsProvidedFields ==
    [][\A u \in Ids : presenter_id = u /\ sent' # <<>> =>
        \A s \in SettingsIn : PresenterUpdates(u, s) =>
          /\ target_fps' = Provided(s.fps, target_fps)
          /\ target_resolution' = Provided(s.resolution, target_resolution)
          /\ quality' = Provided(s.quality, quality)
          /\ selected_monitor' = Provided(s.monitor, selected_monitor)
          /\ Covers(u, "settings_updated", users)]_vars

\* C25 amended: a settings_update from the presenter sets fps, resolution
\* and quality to the value provided when that value is not 0 (not empty),
\* sets the monitor to the id provided when select_monitor accepts it,
\* leaves every other field unchanged, and sends settings_updated to every
\* registered user; a suspended broadcast goes on to every user who is
\* still registered.
C25_UpdateMergesAcceptedFields ==
    [][\A u \in Ids :
          /\ presenter_id = u /\ sent' # <<>> =>
             \A s \in SettingsIn : PresenterUpdates(u, s) =>
                /\ target_fps' = ProvidedNonZero(s.fps, target_fps)
                /\ target_resolution' = Provided(s.resolution, target_resolution)
                /\ quality' = ProvidedNonZero(s.quality, quality)
                /\ selected_monitor' =
                      IF s.monitor # <<>> /\ s.monitor[1] \in 0..(NumMonitors - 1)
                      THEN s.monitor[1] ELSE selected_monitor
                /\ Covers(u, "settings_updated", users)
          /\ btype[u].type = "settings_updated" => Continues(u)]_vars

\* C25 witness: presenter 1 has had the fps set by a settings_update that
\* omitted the other fields, and settings_updated went to 1 and 2.
C25_Witness ==
    /\ users = <<1, 2>>
    /\ presenter_id = 1
    /\ target_fps = 30 /\ selected_monitor = 0
    /\ quality = DefaultQuality
    /\ target_resolution = <<DefaultWidth, DefaultHeight>>
    /\ Recipients(sent, "settings_updated") = {1, 2}

\* The loop is over: it has left `while`, or an exception has ended it
LoopOver == lp \in {"done", "dead"}

\* C21: the capture loop ends only after stop_capture: the step that ends
\* it leaves `running` False, whatever the captures did before.
C21_LoopEndsOnlyOnStop ==
    [][~LoopOver /\ LoopOver' => ~running']_vars

\* C22: while the loop handles a failed capture, current_frame keeps the
\* frame it held before the tick.
C22_FailedTickKeepsFrame ==
    [][lp = "except" => current_frame' = current_frame]_vars

\* The frames under production: the frame of the tick until its conversion
\* is over
Unfinished == IF lp = "convert" \/ ~built THEN {frame} \ {0} ELSE {}

\* C23: current_frame, and what a read of it has returned, is None or a
\* frame completely produced: never the frame a tick is still producing.
C23_ReadsSeeWholeFrames ==
    /\ current_frame \notin Unfinished
    /\ read \notin Unfinished

\* C23 witness: a reader holds the frame of one tick while the thread of
\* screen_capture is converting the frame of the next.
C23_Witness ==
    /\ impl = "queue"
    /\ lp = "convert"
    /\ read # 0 /\ read = current_frame
    /\ frame = read + 1

\* C27: the loop comes back to `while` from the pacing alone: after a tick,
\* failed or not, it has computed the sleep of the tick and slept it.
C27_EveryTickIsPaced ==
    [][lp' = "while" /\ lp # "while" => lp \in {"enter", "pace", "sleep"}]_vars

\* The queue statements of a tick are over in this step
Queued == impl = "queue" /\ lp \in {"put", "full", "again"} /\ lp' = "pace"

\* C30: beside a consumer, the queue never holds more than QueueMax frames,
\* queue.Full drops the oldest entry, and when the queue statements of a
\* tick are over the newest entry is the frame of the tick.
C30_NewestFrameIsQueued ==
    [][/\ Len(frame_queue') <= QueueMax
       /\ lp = "full" /\ lp' # "full" =>
             frame_queue # <<>> /\ frame_queue' = Tail(frame_queue)
       /\ Queued => /\ frame_queue' # <<>>
                    /\ frame_queue'[Len(frame_queue')] = frame]_vars

\* The pacing step of the loop of screen_capture
Paces == impl = "queue" /\ lp = "pace" /\ lp' # "pace"

\* C26: after the pacing step of a tick of screen_capture's loop
\* next_frame_time is not earlier than the current time: it is the current
\* time when the tick ended late (no sleep), and later when the loop sleeps.
C26_ScheduleNeverLags ==
    [][Paces => /\ next_frame_time' >= now'
                /\ lp' = "while" => next_frame_time' = now'
                /\ lp' = "sleep" => next_frame_time' > now']_vars

\* C26 witness: a tick that took longer than the interval has ended, and
\* next_frame_time has been reset to the current time.
C26_Witness ==
    /\ impl = "queue"
    /\ lp = "while"
    /\ grabbed > 0
    /\ now - tick_start > frame_interval
    /\ next_frame_time = now

\* C28: at the pacing of every tick the interval in use is 1/fps for the fps
\* the Settings hold.
C28_PacingFollowsSettings ==
    lp = "pace" => frame_interval = Interval(target_fps)

\* C29: when a tick finds at least one second gone since the last update,
\* actual_fps becomes the ticks completed since that update over the time
\* since that update, and the window restarts (the classes that keep
\* actual_fps).
C29_ActualFpsIsRolling ==
    [][/\ impl # "simple"
       /\ lp = "fps" /\ lp' # "fps"
       /\ now - last_fps_time >= Second
       => /\ actual_fps'[1] * (now - last_fps_time) =
                (window_ticks + 1) * actual_fps'[2]
          /\ last_fps_time' = now]_vars

\* The steps of the handler of u that announce its join
JoinStep(u) == websocket_handler(u) \/ welcome_resume(u) \/ announce_resume(u)
\* The steps of the handler of u that announce its leave, u being registered
\* when it disconnects
LeaveStep(u) ==
    \/ disconnect(u) /\ u \in Registered
    \/ disconnect_resume(u)
    \/ broadcast_resume(u) /\ btype[u].type = "user_left"
\* The users registered before u that the join of u has still to be
\* announced to
ToAnnounce(u) == IF pc[u] = "idle" THEN Registered ELSE Pending(u)
\* The send_str calls S carry the message type to nobody twice
OnceEach(S, type) ==
    \A i, j \in 1..Len(S) :
        S[i].type = type /\ S[j].type = type /\ S[i].to = S[j].to => i = j

\* C31: the handler of a joiner sends user_joined once to every user that
\* was registered before it and is still registered (a user who has joined
\* since may get it too) and never to the joiner; the handler of a leaver
\* sends user_left once to every remaining user and never to the leaver;
\* also when others join or leave in between.
C31_JoinAndLeaveAnnouncedOnce ==
    [][\A u \in Ids :
          /\ JoinStep(u) =>
                /\ OnceEach(sent', "user_joined")
                /\ u \notin Recipients(sent', "user_joined")
                /\ {v \in Recipients(sent', "user_joined") : v < u}
                      \subseteq ToAnnounce(u)
                /\ \A v \in ToAnnounce(u) :
                      \/ v \in Recipients(sent', "user_joined")
                      \/ v \in Pending(u)'
                      \/ v \notin Range(users')
          /\ LeaveStep(u) =>
                /\ OnceEach(sent', "user_left")
                /\ u \notin Recipients(sent', "user_left")
                /\ pc[u] # "left" /\ pc'[u] # "disc_wait" =>
                      Covers(u, "user_left", users')
                /\ pc[u] = "left" => Continues(u)]_vars

\* C32: the role flag of every registered user agrees with presenter_id: the
\* flag is True exactly for the user presenter_id names.
C32_FlagsAgreeWithPresenterId ==
    \A u \in Registered : is_presenter[u] <=> presenter_id = u

\* No handler is in the middle of a join, a leave or another operation
Quiescent == Suspended = {}

\* C33: whenever no operation is in progress and somebody is registered, a
\* presenter exists: presenter_id is set and names a registered user.
C33_RoomHasPresenter ==
    Quiescent /\ users # <<>> => presenter_id \in Registered

\* The capture threads that are executing the loop
Looping == {k \in ThreadIds : threads[k] \in {"loop", "tick"}}

\* C34: whatever the order of the start_capture and stop_capture calls, at
\* most one capture thread is executing ticks.
C34_OneLoopAtATime == Cardinality(Looping) <= 1

C36_NoCaptureWithoutUsers ==
    users = <<>> /\ (\A u \in Ids : pc[u] = "idle" \/ Ended(u)) => ~running

\* C37: a POST /select-monitor with an id outside 0..len(monitors)-1 is
\* refused by select_monitor and leaves selected_monitor unchanged; with an
\* id that get_monitors lists it is accepted and selects that monitor; and
\* after every step selected_monitor is 0 or an index of `monitors`.
C37_MonitorIdsAreChecked ==
    [][/\ \A m \in MonitorIds : handle_monitor_selection(m) =>
             /\ m \notin 0..(len_monitors - 1) =>
                   ~select_monitor_ok(m) /\ selected_monitor' = selected_monitor
             /\ m \in get_monitors =>
                   select_monitor_ok(m) /\ selected_monitor' = m
       /\ selected_monitor' = 0 \/ selected_monitor' \in 0..(len_monitors - 1)]_vars

\* C38: every peer connection held in `connections` is open (not closed)
\* and its offer is being handled or was answered: none whose offer failed
\* with an error reply is left in it.
C38_ConnectionsAreAnsweredAndOpen ==
    \A p \in connections : peer[p] = "open" /\ offer[p] \in {"waiting", "answered"}

\* C39: cleanup() is never run twice; when start() is over cleanup has run
\* once, the capture is not running and both connection sets of the server
\* are empty; and once stop() has been called cleanup is eventually reached.
C39_CleanupOnceOnEveryExit ==
    /\ [](cleanups <= 1)
    /\ [](app = "done" =>
             cleanups = 1 /\ ~running /\ connections = {} /\ websockets = {})
    /\ (stop_called ~> cleanups >= 1)

====
